---------------------------- MODULE Spec2Model ----------------------------
(***************************************************************************)
(* Retail data warehouse ETL (src/etl/etl_pipeline.py): extract the four   *)
(* CSV record sets, transform them into dim_date, dim_customer,            *)
(* dim_product and fact_sales, and load them into a fresh SQLite file.     *)
(*                                                                         *)
(* A CSV field that the code parses (an id, a number, a date, a name that  *)
(* is concatenated) is a Python str, modelled as a sequence of             *)
(* one-character strings; the numbers and dates are over the alphabet      *)
(* 0-9 + - . _ space and letters other than e, E, W (no exponent floats,   *)
(* no inf/nan, no ISO week dates).  A field that is only passed through    *)
(* or used as a dict key is a string.                                      *)
(* A Python float is modelled as a decimal [m, e] = m * 10^-e in normal    *)
(* form; the inputs used keep every product exact and every rounding away  *)
(* from a tie, where decimal and binary arithmetic agree after round(_,4). *)
(***************************************************************************)
EXTENDS Integers, Sequences, FiniteSets, TLC

VARIABLES
    source,        \* the CSV files in DATA_DIR: per file a sequence of rows, or Missing
    pc,            \* position of the process in __main__ / load
    raw,           \* the dict extract() returned
    out,           \* the tuple transform() returned, with its skip counter
    store,         \* the SQLite file at DB_PATH: NoDb or its committed tables
    runs,          \* number of pipeline invocations started
    storeAtStart,  \* history: store when the current invocation started
    lastDone       \* history: source and store at the last completed invocation

vars == <<source, pc, raw, out, store, runs, storeAtStart, lastDone>>

---------------------------------------------------------------------------
(* Python values *)

\* An exception propagating out of a call.
Raise == [ok |-> FALSE]
Ok(v) == [ok |-> TRUE, v |-> v]

\* Python's None and a present value, for the result of dict.get.
None == [isNone |-> TRUE]
Some(v) == [isNone |-> FALSE, v |-> v]

Range(s) == {s[i] : i \in 1..Len(s)}
SetMin(S) == CHOOSE x \in S : \A y \in S : x <= y
SetMax(S) == CHOOSE x \in S : \A y \in S : x >= y

DigitChars == <<"0", "1", "2", "3", "4", "5", "6", "7", "8", "9">>
IsDigit(c) == c \in Range(DigitChars)
DigitVal(c) == (CHOOSE i \in 1..10 : DigitChars[i] = c) - 1

RECURSIVE Pow10(_)
Pow10(n) == IF n = 0 THEN 1 ELSE 10 * Pow10(n - 1)

\* str.strip() as int() and float() apply it to their argument.
Strip(s) ==
    LET keep == {i \in 1..Len(s) : s[i] # " "}
    IN  IF keep = {} THEN <<>> ELSE SubSeq(s, SetMin(keep), SetMax(keep))

\* A digit run as int() and float() accept it: digits, single underscores between digits.
IsDigitRun(s) ==
    /\ Len(s) >= 1
    /\ \A i \in 1..Len(s) : IsDigit(s[i]) \/ s[i] = "_"
    /\ IsDigit(s[1]) /\ IsDigit(s[Len(s)])
    /\ \A i \in 1..(Len(s) - 1) : ~(s[i] = "_" /\ s[i + 1] = "_")

RECURSIVE DigitRunValue(_)
DigitRunValue(s) ==
    IF s = <<>> THEN 0
    ELSE LET front == SubSeq(s, 1, Len(s) - 1)
             c     == s[Len(s)]
         IN  IF c = "_" THEN DigitRunValue(front)
             ELSE 10 * DigitRunValue(front) + DigitVal(c)

CountDigits(s) == Cardinality({i \in 1..Len(s) : IsDigit(s[i])})

HasSign(t) == t # <<>> /\ t[1] \in {"+", "-"}
Unsigned(t) == IF HasSign(t) THEN Tail(t) ELSE t
SignOf(t) == IF HasSign(t) /\ t[1] = "-" THEN -1 ELSE 1

\* The stripped text t as an integer literal: an optional sign, then a digit run.
SignedInt(t) ==
    IF IsDigitRun(Unsigned(t)) THEN Ok(SignOf(t) * DigitRunValue(Unsigned(t))) ELSE Raise

\* int(s) for a str s: Ok(n), or Raise for ValueError.
ParseInt(s) == SignedInt(Strip(s))

\* The decimal digits of a natural number (str of a non-negative int).
RECURSIVE IntToChars(_)
IntToChars(n) ==
    IF n < 10 THEN <<DigitChars[n + 1]>>
    ELSE IntToChars(n \div 10) \o <<DigitChars[(n % 10) + 1]>>

\* "%0<w>d" for a non-negative int.
RECURSIVE ZeroPad(_, _)
ZeroPad(cs, w) == IF Len(cs) >= w THEN cs ELSE ZeroPad(<<"0">> \o cs, w)

---------------------------------------------------------------------------
(* Floats as decimals *)

RECURSIVE Norm(_, _)
Norm(m, e) ==
    IF e > 0 /\ m % 10 = 0 THEN Norm(m \div 10, e - 1) ELSE [m |-> m, e |-> e]

DecFromInt(n) == [m |-> n, e |-> 0]
DecMul(a, b) == Norm(a.m * b.m, a.e + b.e)
DecSub(a, b) ==
    LET e == IF a.e >= b.e THEN a.e ELSE b.e
    IN  Norm(a.m * Pow10(e - a.e) - b.m * Pow10(e - b.e), e)

\* round(x, 4): to the nearest multiple of 10^-4, a tie to the even one.
Round4(a) ==
    IF a.e <= 4 THEN a
    ELSE LET p == Pow10(a.e - 4)
             q == a.m \div p
             r == a.m % p
             up == (2 * r > p) \/ (2 * r = p /\ q % 2 = 1)
         IN  Norm(IF up THEN q + 1 ELSE q, 4)

\* The value of integer part ip and fraction part fp (either may be empty, not both).
FloatOfParts(sign, ip, fp) ==
    IF /\ ip = <<>> \/ IsDigitRun(ip)
       /\ fp = <<>> \/ IsDigitRun(fp)
       /\ ip # <<>> \/ fp # <<>>
    THEN Ok(Norm(sign * (DigitRunValue(ip) * Pow10(CountDigits(fp)) + DigitRunValue(fp)),
                 CountDigits(fp)))
    ELSE Raise

\* The unsigned text split at its decimal point, dots being the positions of "." in it.
FloatOfBody(sign, body, dots) ==
    IF Cardinality(dots) > 1 THEN Raise
    ELSE IF dots = {} THEN FloatOfParts(sign, body, <<>>)
    ELSE FloatOfParts(sign, SubSeq(body, 1, SetMin(dots) - 1),
                      SubSeq(body, SetMin(dots) + 1, Len(body)))

SignedFloat(t) ==
    FloatOfBody(SignOf(t), Unsigned(t),
                {i \in 1..Len(Unsigned(t)) : Unsigned(t)[i] = "."})

\* float(s) for a str s: Ok(decimal), or Raise for ValueError.
ParseFloat(s) == SignedFloat(Strip(s))

---------------------------------------------------------------------------
(* datetime.date *)

MINYEAR == 1
MAXYEAR == 9999

IsLeap(y) == y % 4 = 0 /\ (y % 100 # 0 \/ y % 400 = 0)

DaysInMonth(y, m) ==
    IF m = 2 THEN (IF IsLeap(y) THEN 29 ELSE 28)
    ELSE IF m \in {4, 6, 9, 11} THEN 30 ELSE 31

RECURSIVE DaysBeforeMonth(_, _)
DaysBeforeMonth(y, m) ==
    IF m = 1 THEN 0 ELSE DaysBeforeMonth(y, m - 1) + DaysInMonth(y, m - 1)

DaysBeforeYear(y) ==
    (y - 1) * 365 + (y - 1) \div 4 - (y - 1) \div 100 + (y - 1) \div 400

\* date.toordinal(): 0001-01-01 is day 1.
ToOrdinal(d) == DaysBeforeYear(d.year) + DaysBeforeMonth(d.year, d.month) + d.day

\* date.weekday(): Monday is 0.
Weekday(d) == (ToOrdinal(d) + 6) % 7

IsoWeek1Monday(y) ==
    LET firstday == DaysBeforeYear(y) + 1
        firstweekday == (firstday + 6) % 7
        monday == firstday - firstweekday
    IN  IF firstweekday > 3 THEN monday + 7 ELSE monday

\* date.isocalendar()[1]
IsoWeek(d) ==
    LET today == ToOrdinal(d)
        week == (today - IsoWeek1Monday(d.year)) \div 7
    IN  IF week < 0
        THEN (today - IsoWeek1Monday(d.year - 1)) \div 7 + 1
        ELSE IF week >= 52 /\ today >= IsoWeek1Monday(d.year + 1) THEN 1
        ELSE week + 1

AllDigits(s) == \A i \in 1..Len(s) : IsDigit(s[i])

\* date(y, m, d): Ok of the date, or Raise for ValueError.
MakeDate(y, m, d) ==
    IF /\ y >= MINYEAR /\ y <= MAXYEAR
       /\ m >= 1 /\ m <= 12
       /\ d >= 1 /\ d <= DaysInMonth(y, m)
    THEN Ok([year |-> y, month |-> m, day |-> d])
    ELSE Raise

\* The month at mpos and the day at dpos, a "-" after the month iff one follows the year.
IsoFieldsAt(s, hasSep, mpos, dpos) ==
    IF /\ dpos + 1 <= Len(s)
       /\ AllDigits(SubSeq(s, mpos, mpos + 1))
       /\ (s[mpos + 2] = "-") = hasSep
       /\ AllDigits(SubSeq(s, dpos, dpos + 1))
    THEN MakeDate(DigitRunValue(SubSeq(s, 1, 4)),
                  DigitRunValue(SubSeq(s, mpos, mpos + 1)),
                  DigitRunValue(SubSeq(s, dpos, dpos + 1)))
    ELSE Raise

IsoFields(s, hasSep) ==
    IsoFieldsAt(s, hasSep, IF hasSep THEN 6 ELSE 5, IF hasSep THEN 9 ELSE 7)

\* date.fromisoformat(s) (CPython 3.11): the calendar forms YYYY-MM-DD and
\* YYYYMMDD, the latter also when two more characters follow it.
FromIsoFormat(s) ==
    IF Len(s) \notin {8, 10} \/ ~AllDigits(SubSeq(s, 1, 4)) THEN Raise
    ELSE IsoFields(s, s[5] = "-")

\* Variant: "%Y%-m%-d", month and day without their leading zero.
StrfYmdUnpadded(d) == IntToChars(d.year) \o IntToChars(d.month) \o IntToChars(d.day)

\* d.strftime("%Y%m%d"): the year's digits, then two digits each for month and day.
StrfYmd(d) ==
    IntToChars(d.year) \o ZeroPad(IntToChars(d.month), 2) \o ZeroPad(IntToChars(d.day), 2)

\* str(d): YYYY-MM-DD with a four-digit year.
DateStr(d) ==
    ZeroPad(IntToChars(d.year), 4) \o <<"-">> \o ZeroPad(IntToChars(d.month), 2)
        \o <<"-">> \o ZeroPad(IntToChars(d.day), 2)

MONTHS == <<"January", "February", "March", "April", "May", "June",
            "July", "August", "September", "October", "November", "December">>
DAYS == <<"Monday", "Tuesday", "Wednesday", "Thursday", "Friday", "Saturday", "Sunday">>

---------------------------------------------------------------------------
(* dict: insertion-ordered sequence of [k, v] entries *)

DictHas(d, k) == \E i \in 1..Len(d) : d[i].k = k

\* d[k] = v
DictSet(d, k, v) ==
    IF DictHas(d, k)
    THEN [i \in 1..Len(d) |-> IF d[i].k = k THEN [k |-> k, v |-> v] ELSE d[i]]
    ELSE Append(d, [k |-> k, v |-> v])

\* d.get(k): None on a miss.
DictGet(d, k) ==
    IF DictHas(d, k) THEN Some(d[CHOOSE i \in 1..Len(d) : d[i].k = k].v) ELSE None

\* d.get(k, default)
DictGetDefault(d, k, default) ==
    IF DictHas(d, k) THEN d[CHOOSE i \in 1..Len(d) : d[i].k = k].v ELSE default

\* list(d.values())
DictValues(d) == [i \in 1..Len(d) |-> d[i].v]

---------------------------------------------------------------------------
(* build_date_dim *)

\* The calendar row built for date d with key date_id.
DateRow(d, date_id) ==
    [date_id      |-> date_id,
     full_date    |-> DateStr(d),
     day          |-> d.day,
     month        |-> d.month,
     month_name   |-> MONTHS[d.month],
     quarter      |-> (d.month - 1) \div 3 + 1,
     year         |-> d.year,
     week_of_year |-> IsoWeek(d),
     day_of_week  |-> DAYS[Weekday(d) + 1],
     is_weekend   |-> Weekday(d) >= 5]

RECURSIVE DateLoop(_, _, _)

\* if date_id not in seen: seen[date_id] = {...}
DateSeen(orders, i, seen, d, date_id) ==
    IF ~DictHas(seen, date_id)
    THEN DateLoop(orders, i + 1, DictSet(seen, date_id, DateRow(d, date_id)))
    ELSE DateLoop(orders, i + 1, seen)

\* The loop body for row i, d being date.fromisoformat of its order_date.
DateStep(orders, i, seen, d) ==
    IF ~d.ok THEN Raise
    ELSE DateSeen(orders, i, seen, d.v, ParseInt(StrfYmd(d.v)).v)

\* The loop over orders from row i on, with the rows seen so far.
DateLoop(orders, i, seen) ==
    IF i > Len(orders) THEN Ok(DictValues(seen))
    ELSE DateStep(orders, i, seen, FromIsoFormat(orders[i].order_date))

build_date_dim(orders) == DateLoop(orders, 1, <<>>)

---------------------------------------------------------------------------
(* transform *)

\* The list of the element values, or Raise when an element expression raised.
Collect(res) ==
    IF \E i \in 1..Len(res) : ~res[i].ok THEN Raise
    ELSE Ok([i \in 1..Len(res) |-> res[i].v])

\* {r["full_date"]: r["date_id"] for r in dim_date}, from entry i on.
RECURSIVE DateLookupLoop(_, _, _)
DateLookupLoop(dim_date, i, d) ==
    IF i > Len(dim_date) THEN d
    ELSE DateLookupLoop(dim_date, i + 1, DictSet(d, dim_date[i].full_date, dim_date[i].date_id))

date_lookup_of(dim_date) == DateLookupLoop(dim_date, 1, <<>>)

DimCustomerRow(c) ==
    LET id == ParseInt(c.customer_id)
    IN  IF ~id.ok THEN Raise
        ELSE Ok([customer_id |-> id.v,
                 first_name  |-> c.first_name,
                 last_name   |-> c.last_name,
                 full_name   |-> c.first_name \o <<" ">> \o c.last_name,
                 email       |-> c.email,
                 city        |-> c.city,
                 segment     |-> c.segment])

\* Variant: a builder that filters, keeping the Retail segment only.
dim_customer_of_filtered(customers) ==
    Collect([i \in 1..Len(SelectSeq(customers, LAMBDA c : c.segment = "Retail")) |->
                DimCustomerRow(SelectSeq(customers, LAMBDA c : c.segment = "Retail")[i])])

\* [{...} for c in customers]
dim_customer_of(customers) ==
    Collect([i \in 1..Len(customers) |-> DimCustomerRow(customers[i])])

DimProductRow(p) ==
    LET id == ParseInt(p.product_id)
        cost == ParseFloat(p.unit_cost)
    IN  IF ~id.ok \/ ~cost.ok THEN Raise
        ELSE Ok([product_id   |-> id.v,
                 product_name |-> p.product_name,
                 category     |-> p.category,
                 unit_cost    |-> cost.v,
                 supplier     |-> p.supplier])

\* [{...} for p in products]
dim_product_of(products) ==
    Collect([i \in 1..Len(products) |-> DimProductRow(products[i])])

channel_map ==
    <<[k |-> "online", v |-> 1], [k |-> "mobile_app", v |-> 2], [k |-> "store", v |-> 3]>>

\* {int(p["product_id"]): float(p["unit_cost"]) for p in products}, from row i on.
RECURSIVE CostLookupLoop(_, _, _)
CostLookupLoop(products, i, d) ==
    IF i > Len(products) THEN Ok(d)
    ELSE LET id == ParseInt(products[i].product_id)
             cost == ParseFloat(products[i].unit_cost)
         IN  IF ~id.ok \/ ~cost.ok THEN Raise
             ELSE CostLookupLoop(products, i + 1, DictSet(d, id.v, cost.v))

cost_lookup_of(products) == CostLookupLoop(products, 1, <<>>)

\* {int(o["order_id"]): o for o in orders}, from row i on.
RECURSIVE OrderLookupLoop(_, _, _)
OrderLookupLoop(orders, i, d) ==
    IF i > Len(orders) THEN Ok(d)
    ELSE LET id == ParseInt(orders[i].order_id)
         IN  IF ~id.ok THEN Raise
             ELSE OrderLookupLoop(orders, i + 1, DictSet(d, id.v, orders[i]))

order_lookup_of(orders) == OrderLookupLoop(orders, 1, <<>>)

\* The four derived measures of one line item.
\* Variant: the margin taken from gross revenue, before the discount.
MetricsMarginOfGross(qty, unit_price, discount, unit_cost) ==
    LET gross_revenue == Round4(DecMul(DecFromInt(qty), unit_price))
        net_revenue   == Round4(DecMul(gross_revenue, DecSub(DecFromInt(1), discount)))
        cogs          == Round4(DecMul(DecFromInt(qty), unit_cost))
        gross_margin  == Round4(DecSub(gross_revenue, cogs))
    IN  [gross_revenue |-> gross_revenue, net_revenue |-> net_revenue,
         cogs |-> cogs, gross_margin |-> gross_margin]

Metrics(qty, unit_price, discount, unit_cost) ==
    LET gross_revenue == Round4(DecMul(DecFromInt(qty), unit_price))
        net_revenue   == Round4(DecMul(gross_revenue, DecSub(DecFromInt(1), discount)))
        cogs          == Round4(DecMul(DecFromInt(qty), unit_cost))
        gross_margin  == Round4(DecSub(net_revenue, cogs))
    IN  [gross_revenue |-> gross_revenue, net_revenue |-> net_revenue,
         cogs |-> cogs, gross_margin |-> gross_margin]

\* The dict appended to fact_sales, from the parsed fields.
BuildFact(oid, order, item_id, cust_id, product_id, qty, unit_price, discount, unit_cost, date_lookup) ==
    [order_id      |-> oid,
     order_item_id |-> item_id,
     date_id       |-> DictGet(date_lookup, order.order_date),
     customer_id   |-> cust_id,
     product_id    |-> product_id,
     channel_id    |-> DictGetDefault(channel_map, order.channel, 1),
     quantity      |-> qty,
     unit_price    |-> unit_price,
     unit_cost     |-> unit_cost,
     discount      |-> discount,
     status        |-> order.status] @@ Metrics(qty, unit_price, discount, unit_cost)

\* The row for the parse results of an item's and its order's fields.
FactRowOf(oid, order, lk, product_id, qty, unit_price, discount, item_id, cust_id) ==
    IF ~product_id.ok \/ ~qty.ok \/ ~unit_price.ok \/ ~discount.ok
       \/ ~item_id.ok \/ ~cust_id.ok
    THEN Raise
    ELSE Ok(BuildFact(oid, order, item_id.v, cust_id.v, product_id.v, qty.v,
                      unit_price.v, discount.v,
                      DictGetDefault(lk.cost, product_id.v, DecFromInt(0)), lk.date))

\* The row appended for an item whose order was found; Raise when a field does not
\* parse. lk holds order_lookup, cost_lookup and date_lookup.
FactRow(item, oid, order, lk) ==
    FactRowOf(oid, order, lk,
              ParseInt(item.product_id), ParseInt(item.quantity),
              ParseFloat(item.unit_price), ParseFloat(item.discount),
              ParseInt(item.order_item_id), ParseInt(order.customer_id))

\* skipped += 1; continue
\* Variant: an orphan item passed over without being counted.
SkipItemUncounted(acc) == acc

SkipItem(acc) == [acc EXCEPT !.skipped = @ + 1]

\* Variant: fact_sales.insert(0, row)
FactPrepend(acc, row) == [acc EXCEPT !.fact_sales = <<row>> \o @]

\* fact_sales.append(row)
FactAppend(acc, row) == [acc EXCEPT !.fact_sales = Append(@, row)]

RECURSIVE ItemLoop(_, _, _, _)

\* fact_sales.append of the row built for item i, unless building it raised.
ItemAppend(items, i, acc, lk, row) ==
    IF ~row.ok THEN Raise ELSE ItemLoop(items, i + 1, FactAppend(acc, row.v), lk)

\* order = order_lookup.get(oid); if not order: skip
ItemWithOrder(items, i, acc, lk, oid, order) ==
    IF order.isNone THEN ItemLoop(items, i + 1, SkipItem(acc), lk)
    ELSE ItemAppend(items, i, acc, lk, FactRow(items[i], oid, order.v, lk))

\* The loop body for item i, oid being int(item["order_id"]).
ItemStep(items, i, acc, lk, oid) ==
    IF ~oid.ok THEN Raise
    ELSE ItemWithOrder(items, i, acc, lk, oid.v, DictGet(lk.order, oid.v))

\* The loop over order items from item i on; acc holds fact_sales and skipped.
ItemLoop(items, i, acc, lk) ==
    IF i > Len(items) THEN Ok(acc)
    ELSE ItemStep(items, i, acc, lk, ParseInt(items[i].order_id))

\* The return statement, loop being the outcome of the fact loop.
TransformResult(dim_date, dim_customer, dim_product, loop) ==
    IF ~loop.ok THEN Raise
    ELSE Ok([dim_date     |-> dim_date,
             dim_customer |-> dim_customer,
             dim_product  |-> dim_product,
             fact_sales   |-> loop.v.fact_sales,
             skipped      |-> loop.v.skipped])

\* The fact loop, once the lookups are built.
TransformFacts(data, dim_date, dim_customer, dim_product, date_lookup, cost_lookup, order_lookup) ==
    IF ~cost_lookup.ok \/ ~order_lookup.ok THEN Raise
    ELSE TransformResult(dim_date, dim_customer, dim_product,
             ItemLoop(data.order_items, 1, [fact_sales |-> <<>>, skipped |-> 0],
                      [order |-> order_lookup.v, cost |-> cost_lookup.v,
                       date |-> date_lookup]))

\* The lookups, once the three dimensions are built.
TransformLookups(data, dim_date, dim_customer, dim_product) ==
    IF ~dim_date.ok \/ ~dim_customer.ok \/ ~dim_product.ok THEN Raise
    ELSE TransformFacts(data, dim_date.v, dim_customer.v, dim_product.v,
                        date_lookup_of(dim_date.v), cost_lookup_of(data.products),
                        order_lookup_of(data.orders))

\* transform(data): Ok of the four record sets and the skip counter, or Raise.
transform(data) ==
    TransformLookups(data, build_date_dim(data.orders),
                     dim_customer_of(data.customers), dim_product_of(data.products))

---------------------------------------------------------------------------
(* Source rows the specifications draw from *)

\* customers.csv rows: c1d repeats customer 1 under the spelling 01; cbad has a non-numeric id.
c1 ==
    [customer_id |-> <<"1">>, first_name |-> <<"A", "n", "n">>,
     last_name |-> <<"B", "o">>, email |-> "a@x", city |-> "Lima",
     segment |-> "Retail"]

c1d ==
    [customer_id |-> <<"0", "1">>, first_name |-> <<"C", "y">>,
     last_name |-> <<"D", "i">>, email |-> "c@x", city |-> "Bogota",
     segment |-> "Online"]

c2 ==
    [customer_id |-> <<"2">>, first_name |-> <<"E", "d">>, last_name |-> <<"F", "u">>,
     email |-> "b@x", city |-> "Lima", segment |-> "Wholesale"]

cbad ==
    [customer_id |-> <<"x">>, first_name |-> <<"G", "i", "l">>,
     last_name |-> <<"H", "o">>, email |-> "a@x", city |-> "Lima",
     segment |-> "Retail"]

\* products.csv rows: p5d repeats product 5; pbad has a non-numeric cost.
p5 ==
    [product_id |-> <<"5">>, product_name |-> "Lamp", category |-> "Home",
     unit_cost |-> <<"6", ".", "0", "0">>, supplier |-> "S1"]

p5d ==
    [product_id |-> <<" ", "5">>, product_name |-> "Rug", category |-> "Home",
     unit_cost |-> <<"2", ".", "5">>, supplier |-> "S1"]

p6 ==
    [product_id |-> <<"6">>, product_name |-> "Mat", category |-> "Sports",
     unit_cost |-> <<"0", ".", "1", "2", "5">>, supplier |-> "S2"]

pbad ==
    [product_id |-> <<"7">>, product_name |-> "Pot", category |-> "Home",
     unit_cost |-> <<"n", "/", "a">>, supplier |-> "S1"]

\* orders.csv rows: o2 names a customer no row has, spells its date YYYYMMDD and has an
\* unlisted channel; o1d repeats order 1 as 01; obad carries an impossible date; o5 is
\* an order of customer 2 whose date is spelt YYYYMMDD.
o1 ==
    [order_id |-> <<"1">>, customer_id |-> <<"1">>,
     order_date |-> <<"2", "0", "2", "4", "-", "0", "1", "-", "0", "5">>,
     status |-> "completed", channel |-> "store"]

o2 ==
    [order_id |-> <<"2">>, customer_id |-> <<"7">>,
     order_date |-> <<"2", "0", "2", "4", "0", "1", "0", "6">>, status |-> "returned",
     channel |-> "web"]

o1d ==
    [order_id |-> <<"0", "1">>, customer_id |-> <<"2">>,
     order_date |-> <<"2", "0", "2", "3", "-", "1", "2", "-", "3", "1">>,
     status |-> "cancelled", channel |-> "mobile_app"]

o3 ==
    [order_id |-> <<"3">>, customer_id |-> <<"1">>,
     order_date |-> <<"2", "0", "2", "4", "-", "0", "1", "-", "0", "5">>,
     status |-> "completed", channel |-> "online"]

obad ==
    [order_id |-> <<"4">>, customer_id |-> <<"1">>,
     order_date |-> <<"2", "0", "2", "4", "-", "0", "2", "-", "3", "0">>,
     status |-> "completed", channel |-> "online"]

o5 ==
    [order_id |-> <<"5">>, customer_id |-> <<"2">>,
     order_date |-> <<"2", "0", "2", "4", "0", "1", "0", "6">>, status |-> "completed",
     channel |-> "online"]

\* order_items.csv rows: i11 is an orphan (order 99) with a non-numeric quantity; i12 names
\* an unknown product; ibad has a non-integer quantity on an existing order; i15 is
\* an item of order 5.
i10 ==
    [order_item_id |-> <<"1", "0">>, order_id |-> <<"1">>, product_id |-> <<"5">>,
     quantity |-> <<"3">>, unit_price |-> <<"1", "0", ".", "0", "0">>,
     discount |-> <<"0", ".", "1", "0">>]

i11 ==
    [order_item_id |-> <<"1", "1">>, order_id |-> <<"9", "9">>, product_id |-> <<"5">>,
     quantity |-> <<"x">>, unit_price |-> <<"1", "0", ".", "0", "0">>,
     discount |-> <<"0", ".", "0">>]

i12 ==
    [order_item_id |-> <<"1", "2">>, order_id |-> <<" ", "2">>, product_id |-> <<"9">>,
     quantity |-> <<"2">>, unit_price |-> <<"0", ".", "3", "3", "3">>,
     discount |-> <<"0", ".", "0", "7">>]

i13 ==
    [order_item_id |-> <<"1", "3">>, order_id |-> <<"3">>, product_id |-> <<"6">>,
     quantity |-> <<"4">>, unit_price |-> <<"1", "9", ".", "9", "9">>,
     discount |-> <<"0", ".", "1", "5">>]

i15 ==
    [order_item_id |-> <<"1", "5">>, order_id |-> <<"5">>, product_id |-> <<"5">>,
     quantity |-> <<"1">>, unit_price |-> <<"4", ".", "5", "0">>,
     discount |-> <<"0", ".", "0">>]

ibad ==
    [order_item_id |-> <<"1", "4">>, order_id |-> <<"1">>, product_id |-> <<"5">>,
     quantity |-> <<"1", ".", "5">>, unit_price |-> <<"1", "0", ".", "0", "0">>,
     discount |-> <<"0", ".", "0">>]

---------------------------------------------------------------------------
(* Bounds and input sets *)

MaxRuns == 2          \* pipeline invocations in one behaviour
MaxOrders == 2        \* orders rows drawn for transform
MaxItems == 2         \* order_items rows drawn for transform
MaxDateOrders == 3    \* orders rows drawn for build_date_dim

RECURSIVE SeqsOfLen(_, _)
SeqsOfLen(S, n) ==
    IF n = 0 THEN {<<>>}
    ELSE {Append(q, x) : q \in SeqsOfLen(S, n - 1), x \in S}

SeqsUpTo(S, n) == UNION {SeqsOfLen(S, k) : k \in 0..n}

\* A file of DATA_DIR.
File(rows) == [exists |-> TRUE, rows |-> rows]
NoFile == [exists |-> FALSE]

Source(customers, products, orders, items) ==
    [customers |-> customers, products |-> products, orders |-> orders, order_items |-> items]

\* Contents DATA_DIR may have when the pipeline runs.
SrcClean == Source(File(<<c1, c2>>), File(<<p5, p6>>), File(<<o1, o3>>), File(<<i10, i13>>))
SrcRepeats ==
    Source(File(<<c1, c1d, c2>>), File(<<p5, p5d>>), File(<<o1, o2>>), File(<<i10, i11, i12>>))
SrcBadType == Source(File(<<c1, cbad>>), File(<<p5>>), File(<<o1>>), File(<<i10>>))
SrcNoOrders == Source(File(<<c1>>), File(<<p5>>), NoFile, File(<<i10>>))

SourceSet == {SrcClean, SrcRepeats, SrcBadType, SrcNoOrders}

\* Inputs of transform: the orders and order_items vary over every sequence within the bounds.
CustomerTables == {<<>>, <<c1, c2>>}
ProductTables == {<<>>, <<p5d, p5>>}
OrderRows == {o1, o2, o1d, o5, obad}
ItemRows == {i10, i11, i12, i15, ibad}

TransformInputs ==
    {[customers |-> c, products |-> p, orders |-> o, order_items |-> i] :
        c \in CustomerTables, p \in ProductTables,
        o \in SeqsUpTo(OrderRows, MaxOrders), i \in SeqsUpTo(ItemRows, MaxItems)}

\* Inputs of build_date_dim: order rows over these order_date strings.
DateStrings ==
    {<<"2", "0", "2", "4", "-", "0", "1", "-", "0", "5">>,
     <<"2", "0", "2", "4", "0", "1", "0", "5">>,
     <<"2", "0", "2", "3", "-", "1", "2", "-", "3", "1">>,
     <<"2", "0", "2", "4", "-", "0", "2", "-", "2", "9">>,
     <<"0", "9", "9", "9", "-", "1", "2", "-", "3", "1">>,
     <<"2", "0", "2", "3", "-", "0", "2", "-", "2", "9">>}

DateOrderRows == {[o1 EXCEPT !.order_date = s] : s \in DateStrings}

---------------------------------------------------------------------------
(* The SQLite file *)

NoDb == [exists |-> FALSE]

TableNames == <<"dim_date", "dim_customer", "dim_product", "fact_sales">>

\* The file sqlite3.connect creates when DB_PATH is absent: no table in it.  A
\* table's rows are kept under its name and count only while tables names it.
BlankDb ==
    [exists |-> TRUE, tables |-> {}, dim_date |-> <<>>, dim_customer |-> <<>>,
     dim_product |-> <<>>, fact_sales |-> <<>>]

\* The primary key column of each table among the inserted columns ("" for none:
\* the fact table is keyed by a row id the insert does not supply).
PrimaryKey ==
    [dim_date |-> "date_id", dim_customer |-> "customer_id",
     dim_product |-> "product_id", fact_sales |-> ""]

Columns ==
    [dim_date |-> {"date_id", "full_date", "day", "month", "month_name", "quarter",
                   "year", "week_of_year", "day_of_week", "is_weekend"},
     dim_customer |-> {"customer_id", "first_name", "last_name", "full_name",
                       "email", "city", "segment"},
     dim_product |-> {"product_id", "product_name", "category", "unit_cost", "supplier"},
     fact_sales |-> {"order_id", "order_item_id", "date_id", "customer_id", "product_id",
                     "channel_id", "quantity", "unit_price", "unit_cost", "discount",
                     "gross_revenue", "net_revenue", "cogs", "gross_margin", "status"}]

\* Variant: a load that keeps the database file and writes into it.
RemoveDbSkipped(db) == db

\* if os.path.exists(DB_PATH): os.remove(DB_PATH)
RemoveDb(db) == NoDb

\* conn = sqlite3.connect(DB_PATH): an absent file is created, empty.
ConnectDb(db) == IF db.exists THEN db ELSE BlankDb

\* The CREATE TABLE statements of the script that ran, each committed as it runs.
CreateTables(db, made) == [db EXCEPT !.tables = @ \cup made]

\* cur.executescript(f.read()); conn.commit(): the whole script ran.
ApplySchema(db) == CreateTables(db, Range(TableNames))

\* The file after schema.sql ran on a fresh connection: the four tables, empty.
EmptyDb == ApplySchema(BlankDb)

\* Variant: an insert into tables declared without a primary key.
InsertPlain(tbl, row, key) == Append(tbl, row)

\* INSERT OR REPLACE of one row into a table with primary key column key.
InsertOrReplace(tbl, row, key) ==
    IF key = "" THEN Append(tbl, row)
    ELSE Append(SelectSeq(tbl, LAMBDA r : r[key] # row[key]), row)

\* executemany over the rows from row i on, each projected onto cols.
RECURSIVE InsertLoop(_, _, _, _, _)
InsertLoop(tbl, rows, i, cols, key) ==
    IF i > Len(rows) THEN tbl
    ELSE InsertLoop(InsertOrReplace(tbl, [c \in cols |-> rows[i][c]], key),
                    rows, i + 1, cols, key)

\* bulk_insert(table, rows, cols) followed by its commit.
bulk_insert(db, table, rows) ==
    [db EXCEPT ![table] = InsertLoop(@, rows, 1, Columns[table], PrimaryKey[table])]

---------------------------------------------------------------------------
(* The process *)

\* No value yet: the names transform's result is bound to do not exist.
NoOutput ==
    [ready |-> FALSE, dim_date |-> <<>>, dim_customer |-> <<>>,
     dim_product |-> <<>>, fact_sales |-> <<>>, skipped |-> 0]

\* dim_date, dim_customer, dim_product, fact = transform(raw)
Output(t) == [ready |-> TRUE] @@ t

NoData == [customers |-> <<>>, products |-> <<>>, orders |-> <<>>, order_items |-> <<>>]

FileNames == {"customers", "products", "orders", "order_items"}

\* extract(): Ok of the four row lists, or Raise when a file cannot be opened.
extract(src) ==
    IF \E f \in FileNames : ~src[f].exists THEN Raise
    ELSE Ok([f \in FileNames |-> src[f].rows])

\* Variant: __main__ calling load before transform.
NextStageLoadFirst(stage) ==
    CASE stage = "extract" -> "load_remove"
      [] stage = "load_remove" -> "load_connect"
      [] stage = "load_connect" -> "load_schema"
      [] stage = "load_schema" -> "load_dim_date"
      [] stage = "load_dim_date" -> "load_dim_customer"
      [] stage = "load_dim_customer" -> "load_dim_product"
      [] stage = "load_dim_product" -> "load_fact_sales"
      [] stage = "load_fact_sales" -> "load_close"
      [] stage = "load_close" -> "transform"
      [] stage = "transform" -> "done"

\* The statement __main__ runs after the given one, and the steps of load in order.
NextStage(stage) ==
    CASE stage = "extract" -> "transform"
      [] stage = "transform" -> "load_remove"
      [] stage = "load_remove" -> "load_connect"
      [] stage = "load_connect" -> "load_schema"
      [] stage = "load_schema" -> "load_dim_date"
      [] stage = "load_dim_date" -> "load_dim_customer"
      [] stage = "load_dim_customer" -> "load_dim_product"
      [] stage = "load_dim_product" -> "load_fact_sales"
      [] stage = "load_fact_sales" -> "load_close"
      [] stage = "load_close" -> "done"

LoadStages ==
    {"load_remove", "load_connect", "load_schema", "load_dim_date", "load_dim_customer",
     "load_dim_product", "load_fact_sales", "load_close"}

Stopped == {"idle", "done", "failed_extract", "failed_transform", "failed_load"}

Init ==
    /\ source \in SourceSet
    /\ pc = "idle"
    /\ raw = NoData
    /\ out = NoOutput
    /\ store = NoDb
    /\ runs = 0
    /\ storeAtStart = NoDb
    /\ lastDone = [valid |-> FALSE]

\* The CSV files are rewritten while no pipeline process runs.
ChangeSource ==
    /\ pc \in Stopped
    /\ \E s \in SourceSet \ {source} : source' = s
    /\ UNCHANGED <<pc, raw, out, store, runs, storeAtStart, lastDone>>

\* python etl_pipeline.py
StartRun ==
    /\ pc \in Stopped
    /\ runs < MaxRuns
    /\ runs' = runs + 1
    /\ pc' = "extract"
    /\ raw' = NoData
    /\ out' = NoOutput
    /\ storeAtStart' = store
    /\ lastDone' = IF pc = "done"
                   THEN [valid |-> TRUE, raw |-> raw, store |-> store]
                   ELSE [valid |-> FALSE]
    /\ UNCHANGED <<source, store>>

ExtractOk ==
    /\ pc = "extract"
    /\ extract(source).ok
    /\ raw' = extract(source).v
    /\ pc' = NextStage("extract")
    /\ UNCHANGED <<source, out, store, runs, storeAtStart, lastDone>>

ExtractRaise ==
    /\ pc = "extract"
    /\ ~extract(source).ok
    /\ pc' = "failed_extract"
    /\ UNCHANGED <<source, raw, out, store, runs, storeAtStart, lastDone>>

\* The call returned t: its value is bound to the four names.
Returned(t) == t.ok /\ out' = Output(t.v)

TransformOk ==
    /\ pc = "transform"
    /\ Returned(transform(raw))
    /\ pc' = NextStage("transform")
    /\ UNCHANGED <<source, raw, store, runs, storeAtStart, lastDone>>

TransformRaise ==
    /\ pc = "transform"
    /\ ~transform(raw).ok
    /\ pc' = "failed_transform"
    /\ UNCHANGED <<source, raw, out, store, runs, storeAtStart, lastDone>>

LoadRemove ==
    /\ pc = "load_remove"
    /\ store' = RemoveDb(store)
    /\ pc' = NextStage(pc)
    /\ UNCHANGED <<source, raw, out, runs, storeAtStart, lastDone>>

LoadConnect ==
    /\ pc = "load_connect"
    /\ store' = ConnectDb(store)
    /\ pc' = NextStage(pc)
    /\ UNCHANGED <<source, raw, out, runs, storeAtStart, lastDone>>

LoadSchema ==
    /\ pc = "load_schema"
    /\ store' = ApplySchema(store)
    /\ pc' = NextStage(pc)
    /\ UNCHANGED <<source, raw, out, runs, storeAtStart, lastDone>>

LoadTable ==
    /\ \E t \in Range(TableNames) :
          /\ pc = "load_" \o t
          /\ store' = bulk_insert(store, t, out[t])
    /\ pc' = NextStage(pc)
    /\ UNCHANGED <<source, raw, out, runs, storeAtStart, lastDone>>

LoadClose ==
    /\ pc = "load_close"
    /\ pc' = NextStage(pc)
    /\ UNCHANGED <<source, raw, out, store, runs, storeAtStart, lastDone>>

\* What the file holds when the step at stage raises: the tables of the script
\* created before the failing statement (none when the schema cannot be read) for
\* the schema step; for every other step what was committed before it, an
\* executemany that raises being rolled back.
AfterRaise(db, stage) ==
    IF stage = "load_schema"
    THEN {CreateTables(db, made) : made \in SUBSET Range(TableNames)}
    ELSE {db}

\* A step of load raises (the file cannot be removed or opened, the schema cannot
\* be read or fails, the disk is full, a constraint rejects a row): the process
\* ends and the file keeps what was committed.
LoadRaise ==
    /\ pc \in LoadStages
    /\ store' \in AfterRaise(store, pc)
    /\ pc' = "failed_load"
    /\ UNCHANGED <<source, raw, out, runs, storeAtStart, lastDone>>

Next ==
    \/ ChangeSource \/ StartRun
    \/ ExtractOk \/ ExtractRaise
    \/ TransformOk \/ TransformRaise
    \/ LoadRemove \/ LoadConnect \/ LoadSchema \/ LoadTable \/ LoadClose \/ LoadRaise

Spec == Init /\ [][Next]_vars

\* transform alone, on every input within the bounds.
InitTransform ==
    /\ raw \in TransformInputs
    /\ source = [f \in FileNames |-> File(raw[f])]
    /\ pc = "transform"
    /\ out = NoOutput
    /\ store = NoDb
    /\ runs = 1
    /\ storeAtStart = NoDb
    /\ lastDone = [valid |-> FALSE]

NextTransform == TransformOk \/ TransformRaise

SpecTransform == InitTransform /\ [][NextTransform]_vars

\* build_date_dim alone, on every order sequence within the bound.
InitDate ==
    /\ \E o \in SeqsUpTo(DateOrderRows, MaxDateOrders) :
          raw = [customers |-> <<>>, products |-> <<>>, orders |-> o, order_items |-> <<>>]
    /\ source = [f \in FileNames |-> File(raw[f])]
    /\ pc = "build_date_dim"
    /\ out = NoOutput
    /\ store = NoDb
    /\ runs = 1
    /\ storeAtStart = NoDb
    /\ lastDone = [valid |-> FALSE]

BuildDateDimOk ==
    /\ pc = "build_date_dim"
    /\ build_date_dim(raw.orders).ok
    /\ out' = [NoOutput EXCEPT !.ready = TRUE, !.dim_date = build_date_dim(raw.orders).v]
    /\ pc' = "returned"
    /\ UNCHANGED <<source, raw, store, runs, storeAtStart, lastDone>>

BuildDateDimRaise ==
    /\ pc = "build_date_dim"
    /\ ~build_date_dim(raw.orders).ok
    /\ pc' = "raised"
    /\ UNCHANGED <<source, raw, out, store, runs, storeAtStart, lastDone>>

NextDate == BuildDateDimOk \/ BuildDateDimRaise

SpecDate == InitDate /\ [][NextDate]_vars

---------------------------------------------------------------------------
(* Vocabulary of the properties, read off the source rows *)

IntOf(s) == ParseInt(s).v
FloatOf(s) == ParseFloat(s).v

CustomerIds(data) == {IntOf(c.customer_id) : c \in Range(data.customers)}
ProductIds(data) == {IntOf(p.product_id) : p \in Range(data.products)}
OrderIds(data) == {IntOf(o.order_id) : o \in Range(data.orders)}

\* An order item whose order_id no order row carries.
IsOrphan(data, item) == IntOf(item.order_id) \notin OrderIds(data)

\* The order items that have an order, in input order.
Survivors(data) == SelectSeq(data.order_items, LAMBDA it : ~IsOrphan(data, it))

\* The order row an item is joined to: the last one carrying its order_id.
ParentOrder(data, item) ==
    data.orders[SetMax({i \in 1..Len(data.orders) :
                           IntOf(data.orders[i].order_id) = IntOf(item.order_id)})]

\* The cost of a product: that of the last row carrying its id, 0.0 when there is none.
ProductCost(data, id) ==
    LET at == {i \in 1..Len(data.products) : IntOf(data.products[i].product_id) = id}
    IN  IF at = {} THEN DecFromInt(0) ELSE FloatOf(data.products[SetMax(at)].unit_cost)

\* Every field transform reads parses as its declared type; the fields of an
\* orphaned item other than its order_id are not read.
Parses(data) ==
    /\ \A o \in Range(data.orders) : FromIsoFormat(o.order_date).ok /\ ParseInt(o.order_id).ok
    /\ \A c \in Range(data.customers) : ParseInt(c.customer_id).ok
    /\ \A p \in Range(data.products) : ParseInt(p.product_id).ok /\ ParseFloat(p.unit_cost).ok
    /\ \A it \in Range(data.order_items) :
          /\ ParseInt(it.order_id).ok
          /\ ~IsOrphan(data, it) =>
                /\ ParseInt(it.product_id).ok /\ ParseInt(it.quantity).ok
                /\ ParseFloat(it.unit_price).ok /\ ParseFloat(it.discount).ok
                /\ ParseInt(it.order_item_id).ok
                /\ ParseInt(ParentOrder(data, it).customer_id).ok

\* The declared foreign keys of the source hold: orders name source customers,
\* order items name source products.
ForeignKeysHold(data) ==
    /\ \A o \in Range(data.orders) : IntOf(o.customer_id) \in CustomerIds(data)
    /\ \A it \in Range(data.order_items) : IntOf(it.product_id) \in ProductIds(data)

\* An order_date spelt YYYY-MM-DD: ten characters, digits but for the two hyphens.
CanonicalDate(s) ==
    /\ Len(s) = 10
    /\ s[5] = "-" /\ s[8] = "-"
    /\ \A i \in {1, 2, 3, 4, 6, 7, 9, 10} : IsDigit(s[i])

Dec(m, e) == Norm(m, e)
DecLess(a, b) == DecSub(a, b).m < 0

\* The rows a table of the file holds.
Rows(db, t) == IF db.exists /\ t \in db.tables THEN Range(db[t]) ELSE {}

\* Calendar order of two dim_date rows.
Before(r1, r2) ==
    \/ r1.year < r2.year
    \/ r1.year = r2.year /\ r1.month < r2.month
    \/ r1.year = r2.year /\ r1.month = r2.month /\ r1.day < r2.day

---------------------------------------------------------------------------
(* Properties *)

\* C1 (as claimed): when load fails after it has started, every row the store held
\* before the run (dim_date, dim_customer, dim_product, fact_sales) is still in it.
PriorContentSurvivesLoadFailure ==
    pc = "failed_load" =>
        \A t \in Range(TableNames) : Rows(storeAtStart, t) \subseteq Rows(store, t)

\* C2 (as claimed): every fact row's date_id, customer_id and product_id is the key
\* of a row of dim_date, dim_customer and dim_product.
ReferentialClosure ==
    out.ready =>
        \A k \in 1..Len(out.fact_sales) :
            LET f == out.fact_sales[k]
            IN  /\ ~f.date_id.isNone
                /\ \E r \in Range(out.dim_date) : r.date_id = f.date_id.v
                /\ \E r \in Range(out.dim_customer) : r.customer_id = f.customer_id
                /\ \E r \in Range(out.dim_product) : r.product_id = f.product_id

\* C2 (amended): when every order names a source customer and every order item a
\* source product, every fact row's customer_id and product_id is the key of a
\* dimension row; its date_id is the key of the dim_date row of its order's date
\* when the order_date is spelt YYYY-MM-DD, and absent when it is spelt otherwise.
ReferentialClosureOfClosedInput ==
    (out.ready /\ ForeignKeysHold(raw)) =>
        /\ Len(out.fact_sales) = Len(Survivors(raw))
        /\ \A k \in 1..Len(out.fact_sales) :
              LET f == out.fact_sales[k]
                  o == ParentOrder(raw, Survivors(raw)[k])
              IN  /\ \E r \in Range(out.dim_customer) : r.customer_id = f.customer_id
                  /\ \E r \in Range(out.dim_product) : r.product_id = f.product_id
                  /\ IF CanonicalDate(o.order_date)
                     THEN /\ ~f.date_id.isNone
                          /\ \E r \in Range(out.dim_date) :
                                r.date_id = f.date_id.v /\ r.full_date = o.order_date
                     ELSE f.date_id.isNone

\* A closed input gave two fact rows: that of order 1, dated 2024-01-05, has its
\* three keys in the dimensions; that of order 5, dated 20240106, has its customer
\* and product in the dimensions and no date_id, though dim_date has 2024-01-06.
ClosedInputJoined ==
    /\ out.ready /\ ForeignKeysHold(raw)
    /\ Len(out.fact_sales) = 2
    /\ out.fact_sales[1].order_id = 1 /\ out.fact_sales[1].date_id = Some(20240105)
    /\ out.fact_sales[2].order_id = 5 /\ out.fact_sales[2].date_id.isNone
    /\ \E r \in Range(out.dim_date) : r.date_id = 20240106
    /\ \A k \in 1..2 :
          /\ \E r \in Range(out.dim_customer) : r.customer_id = out.fact_sales[k].customer_id
          /\ \E r \in Range(out.dim_product) : r.product_id = out.fact_sales[k].product_id

\* C3: transform returns whenever the fields it reads parse, orphans or not; it then
\* emits one fact row per order item that has an order and none for the others, and
\* skipped counts the others, so |fact_sales| + skipped = |order_items|.
FactCardinality ==
    /\ (pc # "transform" /\ Parses(raw)) => out.ready
    /\ out.ready =>
          /\ Len(out.fact_sales) + out.skipped = Len(raw.order_items)
          /\ out.skipped =
                Cardinality({i \in 1..Len(raw.order_items) : IsOrphan(raw, raw.order_items[i])})
          /\ \A it \in Range(raw.order_items) :
                Cardinality({k \in 1..Len(out.fact_sales) :
                                out.fact_sales[k].order_item_id = IntOf(it.order_item_id)})
                = IF IsOrphan(raw, it) THEN 0
                  ELSE Cardinality({i \in 1..Len(raw.order_items) : raw.order_items[i] = it})

\* Orders 1 and 2 with items on orders 1 and 99: one fact row (item 10), one skip,
\* the skipped item's quantity not even numeric.
OrphanSkipped ==
    /\ out.ready
    /\ OrderIds(raw) = {1, 2}
    /\ raw.order_items = <<i10, i11>>
    /\ Len(out.fact_sales) = 1 /\ out.fact_sales[1].order_item_id = 10
    /\ out.skipped = 1

\* C4: a run that completes right after a completed run on the same extracted data
\* leaves the store as that run left it.
FullRefreshIdempotent ==
    (pc = "done" /\ lastDone.valid /\ lastDone.raw = raw) => store = lastDone.store

\* Two runs in succession on the same data completed, the store holding facts.
SecondRunDone ==
    /\ pc = "done" /\ lastDone.valid /\ lastDone.raw = raw
    /\ Len(store.fact_sales) >= 2

\* C5 (as claimed): dim_customer has as many rows as there are distinct source
\* customer_id values, dim_product as many as distinct product_id values, both as
\* returned by transform and as stored by load.
OneRowPerDistinctId ==
    /\ out.ready =>
          /\ Len(out.dim_customer) = Cardinality(CustomerIds(raw))
          /\ Len(out.dim_product) = Cardinality(ProductIds(raw))
    /\ pc = "done" =>
          /\ Len(store.dim_customer) = Cardinality(CustomerIds(raw))
          /\ Len(store.dim_product) = Cardinality(ProductIds(raw))

\* C5 (amended): transform returns one dim_customer row per source customer row and
\* one dim_product row per source product row, in order, repeated ids included; the
\* store after load holds one row per distinct customer_id and per distinct product_id,
\* that of the last source row carrying the id.
OneRowPerSourceRow ==
    /\ out.ready =>
          /\ Len(out.dim_customer) = Len(raw.customers)
          /\ \A i \in 1..Len(raw.customers) :
                out.dim_customer[i].customer_id = IntOf(raw.customers[i].customer_id)
          /\ Len(out.dim_product) = Len(raw.products)
          /\ \A i \in 1..Len(raw.products) :
                out.dim_product[i].product_id = IntOf(raw.products[i].product_id)
    /\ pc = "done" =>
          /\ Len(store.dim_customer) = Cardinality(CustomerIds(raw))
          /\ {r.customer_id : r \in Range(store.dim_customer)} = CustomerIds(raw)
          /\ Len(store.dim_product) = Cardinality(ProductIds(raw))
          /\ {r.product_id : r \in Range(store.dim_product)} = ProductIds(raw)
          /\ \A i \in 1..Len(raw.customers) :
                (\A j \in (i + 1)..Len(raw.customers) :
                    IntOf(raw.customers[j].customer_id) # IntOf(raw.customers[i].customer_id))
                => \E r \in Range(store.dim_customer) :
                      /\ r.customer_id = IntOf(raw.customers[i].customer_id)
                      /\ r.first_name = raw.customers[i].first_name
                      /\ r.email = raw.customers[i].email
          /\ \A i \in 1..Len(raw.products) :
                (\A j \in (i + 1)..Len(raw.products) :
                    IntOf(raw.products[j].product_id) # IntOf(raw.products[i].product_id))
                => \E r \in Range(store.dim_product) :
                      /\ r.product_id = IntOf(raw.products[i].product_id)
                      /\ r.product_name = raw.products[i].product_name
                      /\ r.unit_cost = FloatOf(raw.products[i].unit_cost)

\* A source with a repeated customer and a repeated product was loaded: three and two
\* rows returned, two and one stored.
RepeatedIdsLoaded ==
    /\ pc = "done"
    /\ Len(out.dim_customer) = 3 /\ Len(store.dim_customer) = 2
    /\ Len(out.dim_product) = 2 /\ Len(store.dim_product) = 1

\* C6: build_date_dim returns one row per distinct calendar date among the orders;
\* no two rows share a date_id or a full_date; date_id is the integer YYYYMMDD; and
\* date_id order is calendar order.
DateDimUnique ==
    out.ready =>
        LET rows == out.dim_date
            dates == {FromIsoFormat(o.order_date).v : o \in Range(raw.orders)}
        IN  /\ Len(rows) = Cardinality(dates)
            /\ {[year |-> r.year, month |-> r.month, day |-> r.day] : r \in Range(rows)} = dates
            /\ \A r \in Range(rows) :
                  /\ r.date_id = r.year * 10000 + r.month * 100 + r.day
                  /\ FromIsoFormat(r.full_date) = Ok([year |-> r.year, month |-> r.month, day |-> r.day])
            /\ \A i, j \in 1..Len(rows) :
                  /\ i # j => rows[i].date_id # rows[j].date_id /\ rows[i].full_date # rows[j].full_date
                  /\ rows[i].date_id < rows[j].date_id <=> Before(rows[i], rows[j])

\* Three orders on two dates, one date spelt two ways: two rows, in first-seen order.
TwoDatesFromThreeOrders ==
    /\ out.ready /\ pc = "returned"
    /\ Len(raw.orders) = 3 /\ Len(out.dim_date) = 2
    /\ raw.orders[1].order_date # raw.orders[2].order_date
    /\ out.dim_date[1].date_id = 20240105 /\ out.dim_date[2].date_id = 9991231

\* C7: each fact row carries its item's quantity, unit_price and discount and its
\* product's cost, and for quantity >= 1 and discount in [0,1) its four measures
\* are the rounded products and differences of those; cost 6.00, quantity 3, price
\* 10.00 and discount 0.10 give 30, 27, 18 and 9.
MetricIdentity ==
    out.ready =>
        \A k \in 1..Len(out.fact_sales) :
            LET f == out.fact_sales[k]
                it == Survivors(raw)[k]
                qty == DecFromInt(f.quantity)
            IN  /\ f.quantity = IntOf(it.quantity)
                /\ f.unit_price = FloatOf(it.unit_price)
                /\ f.discount = FloatOf(it.discount)
                /\ f.unit_cost = ProductCost(raw, IntOf(it.product_id))
                /\ (f.quantity >= 1 /\ f.discount.m >= 0 /\ DecLess(f.discount, DecFromInt(1))) =>
                      /\ f.gross_revenue = Round4(DecMul(qty, f.unit_price))
                      /\ f.net_revenue =
                            Round4(DecMul(f.gross_revenue, DecSub(DecFromInt(1), f.discount)))
                      /\ f.cogs = Round4(DecMul(qty, f.unit_cost))
                      /\ f.gross_margin = Round4(DecSub(f.net_revenue, f.cogs))
                /\ (/\ f.quantity = 3 /\ f.unit_price = Dec(10, 0)
                    /\ f.discount = Dec(1, 1) /\ f.unit_cost = Dec(6, 0)) =>
                      /\ f.gross_revenue = Dec(30, 0) /\ f.net_revenue = Dec(27, 0)
                      /\ f.cogs = Dec(18, 0) /\ f.gross_margin = Dec(9, 0)

\* The margin scenario's row, beside a row whose net revenue needed rounding
\* (2 * 0.333 * 0.93 = 0.61938 gives 0.6194).
MarginScenarioRow ==
    /\ out.ready /\ Len(out.fact_sales) = 2
    /\ out.fact_sales[1].unit_cost = Dec(6, 0) /\ out.fact_sales[1].discount = Dec(1, 1)
    /\ out.fact_sales[1].gross_margin = Dec(9, 0)
    /\ out.fact_sales[2].net_revenue = Dec(6194, 4)

\* C8 (as claimed): transform never returns a fact row whose date_id is absent; an
\* order_date that is no key of the date lookup aborts it.
DateMissIsFatal ==
    out.ready => \A k \in 1..Len(out.fact_sales) : ~out.fact_sales[k].date_id.isNone

\* C9: the store differs from what it was when the run started only once transform
\* has returned its four record sets in this run; a run that failed in extract or
\* in transform left the store as it was.
NoDestructionBeforeTransform ==
    /\ store # storeAtStart =>
          /\ out.ready
          /\ pc \in LoadStages \cup {"done", "failed_load"}
          /\ out = Output(transform(raw).v)
    /\ pc \in {"failed_extract", "failed_transform"} => store = storeAtStart

\* A run over a loaded store failed in transform and left the store as it was.
FailedBeforeLoad ==
    /\ pc = "failed_transform"
    /\ storeAtStart.exists /\ Len(storeAtStart.fact_sales) >= 2
    /\ store = storeAtStart

\* C10: the order_item_ids of fact_sales are those of the order items that have an
\* order, in input order.
FactOrdering ==
    out.ready =>
        [k \in 1..Len(out.fact_sales) |-> out.fact_sales[k].order_item_id]
        = [k \in 1..Len(Survivors(raw)) |-> IntOf(Survivors(raw)[k].order_item_id)]

\* Items 12 then 10 came out as 12 then 10.
InputOrderKept ==
    /\ out.ready /\ Len(out.fact_sales) = 2
    /\ out.fact_sales[1].order_item_id = 12
    /\ out.fact_sales[2].order_item_id = 10

============================================================================
